---- MODULE Spec2Model ----
(***************************************************************************)
(* FST performance regression checker (scripts/check_fst_regression.py).   *)
(*                                                                         *)
(* The script is one sequential process: main parses argv, calls           *)
(* check_regressions, which loads the baseline and the current document,   *)
(* reconciles their names, analyses every common benchmark in name order,  *)
(* groups the analyses by level and returns a verdict that main turns into *)
(* the exit code.  An exception nobody catches ends the interpreter with a *)
(* traceback and exit status 1; sys.exit(2) ends it with status 2.         *)
(*                                                                         *)
(* Benchmark names are the integers 1..MaxNames, ordered as the strings    *)
(* they stand for.  Times are non-negative integers.  regression_pct is    *)
(* kept as the exact fraction num/den (den > 0) and compared with the      *)
(* thresholds by cross-multiplication.                                     *)
(***************************************************************************)
EXTENDS Integers, Sequences, FiniteSets, TLC

(***************************************************************************)
(* Bounds of the model.                                                    *)
(***************************************************************************)
MaxNames == 2
MaxEntries == 2
MaxTime == 40

Names == 1..MaxNames

(***************************************************************************)
(* JSON objects are functions from a set of keys; dict.get(key, default).  *)
(***************************************************************************)
EmptyDict == [k \in {} |-> 0]

Opt(key, values) == {EmptyDict} \cup {key :> v : v \in values}

Get(d, key, default) == IF key \in DOMAIN d THEN d[key] ELSE default

Put(d, key, value) == [k \in DOMAIN d \cup {key} |-> IF k = key THEN value ELSE d[k]]

(***************************************************************************)
(* RegressionLevel                                                         *)
(***************************************************************************)
IMPROVEMENT == "improvement"
ACCEPTABLE == "acceptable"
WARNING == "warning"
CRITICAL == "critical"

RegressionLevel == {IMPROVEMENT, ACCEPTABLE, WARNING, CRITICAL}

(***************************************************************************)
(* load_benchmark_results                                                  *)
(***************************************************************************)
NS_PER_MS == 1000000
NS_PER_US == 1000

\* time_ns *= 1_000_000 for 'ms', *= 1_000 for 'us', untouched otherwise
ConvertToNs(time_ns, time_unit) ==
    IF time_unit = "ms" THEN time_ns * NS_PER_MS
    ELSE IF time_unit = "us" THEN time_ns * NS_PER_US
    ELSE time_ns

\* the two fields looked up in the other order
ExtractTime_CpuFirst(benchmark) ==
    Get(benchmark, "cpu_time", Get(benchmark, "real_time", 0))

\* benchmark.get('real_time', benchmark.get('cpu_time', 0))
ExtractTime(benchmark) == Get(benchmark, "real_time", Get(benchmark, "cpu_time", 0))

BenchmarkResult(benchmark) ==
    [name          |-> benchmark["name"],
     time_ns       |-> ConvertToNs(ExtractTime(benchmark), Get(benchmark, "time_unit", "ns")),
     items_per_sec |-> Get(benchmark, "items_per_second", 0),
     label         |-> Get(benchmark, "label", "")]

\* the loop that passes over an entry with neither real_time nor cpu_time
RECURSIVE LoadLoop_SkipUntimed(_, _, _)
LoadLoop_SkipUntimed(benchmarks, i, results) ==
    IF i > Len(benchmarks) THEN [exc |-> "none", results |-> results]
    ELSE IF "name" \notin DOMAIN benchmarks[i] THEN [exc |-> "KeyError", results |-> EmptyDict]
    ELSE IF {"real_time", "cpu_time"} \cap DOMAIN benchmarks[i] = {}
    THEN LoadLoop_SkipUntimed(benchmarks, i + 1, results)
    ELSE LoadLoop_SkipUntimed(benchmarks, i + 1,
                  Put(results, benchmarks[i]["name"], BenchmarkResult(benchmarks[i])))

\* The for loop over data.get('benchmarks', []): benchmark['name'] raises
\* KeyError on an entry without a name; otherwise results[name] is (re)bound.
RECURSIVE LoadLoop(_, _, _)
LoadLoop(benchmarks, i, results) ==
    IF i > Len(benchmarks) THEN [exc |-> "none", results |-> results]
    ELSE IF "name" \notin DOMAIN benchmarks[i] THEN [exc |-> "KeyError", results |-> EmptyDict]
    ELSE LoadLoop(benchmarks, i + 1,
                  Put(results, benchmarks[i]["name"], BenchmarkResult(benchmarks[i])))

\* A file is [kind, data]: kind says whether open() and json.load() succeed,
\* data is the parsed top-level object.
load_benchmark_results(file) ==
    IF file.kind = "FileNotFound" THEN [exc |-> "SystemExit2", results |-> EmptyDict]
    ELSE IF file.kind = "JSONDecodeError" THEN [exc |-> "SystemExit2", results |-> EmptyDict]
    ELSE LoadLoop(Get(file.data, "benchmarks", <<>>), 1, EmptyDict)

LoadMessage(file) ==
    IF file.kind = "FileNotFound" THEN <<"Error: File not found">>
    ELSE IF file.kind = "JSONDecodeError" THEN <<"Error: Invalid JSON">>
    ELSE <<>>

(***************************************************************************)
(* analyze_regression                                                      *)
(***************************************************************************)
\* ((current_ns - baseline_ns) / baseline_ns) * 100 as an exact fraction
regression_pct(baseline_ns, current_ns) ==
    [num |-> (current_ns - baseline_ns) * 100, den |-> baseline_ns]

\* the change in nanoseconds, not the fraction, held against the threshold
PctLeq_Absolute(r, k) == r.num <= k * 100

\* r <= k for a fraction r with a positive denominator
PctLeq(r, k) == r.num <= k * r.den

\* r < k, the comparison a cascade written with < would make
PctLt(r, k) == r.num < k * r.den

\* the cascade with every boundary moved to the tier above
LevelOf_Strict(r) ==
    IF PctLt(r, -5) THEN IMPROVEMENT
    ELSE IF PctLt(r, 10) THEN ACCEPTABLE
    ELSE IF PctLt(r, 20) THEN WARNING
    ELSE CRITICAL

\* the if / elif / else cascade on regression_pct
LevelOf(r) ==
    IF PctLeq(r, -5) THEN IMPROVEMENT
    ELSE IF PctLeq(r, 10) THEN ACCEPTABLE
    ELSE IF PctLeq(r, 20) THEN WARNING
    ELSE CRITICAL

\* The division raises ZeroDivisionError when baseline.time_ns is 0.
analyze_regression(baseline, current) ==
    IF baseline.time_ns = 0
    THEN [exc |-> "ZeroDivisionError", analysis |-> EmptyDict]
    ELSE [exc |-> "none",
          analysis |-> [name           |-> baseline.name,
                        baseline_ns    |-> baseline.time_ns,
                        current_ns     |-> current.time_ns,
                        regression_pct |-> regression_pct(baseline.time_ns, current.time_ns),
                        level          |-> LevelOf(regression_pct(baseline.time_ns,
                                                                  current.time_ns))]]

(***************************************************************************)
(* check_regressions: helpers                                              *)
(***************************************************************************)
\* the names in descending order
RECURSIVE Sorted_Descending(_)
Sorted_Descending(S) ==
    IF S = {} THEN <<>>
    ELSE LET m == CHOOSE x \in S : \A y \in S : y <= x
         IN  <<m>> \o Sorted_Descending(S \ {m})

\* sorted(names)
RECURSIVE Sorted(_)
Sorted(S) ==
    IF S = {} THEN <<>>
    ELSE LET m == CHOOSE x \in S : \A y \in S : x <= y
         IN  <<m>> \o Sorted(S \ {m})

\* a warning bucket that also takes the critical analyses
Bucket_WarningOrWorse(as, level) ==
    SelectSeq(as, LAMBDA a : a.level = level \/ (level = WARNING /\ a.level = CRITICAL))

\* [a for a in analyses if a.level == level]
Bucket(as, level) == SelectSeq(as, LAMBDA a : a.level = level)

CommonNames(baseline_names, current_names) == baseline_names \cap current_names

OnlyBaseline(baseline_names, current_names) == baseline_names \ current_names

\* the difference forgotten
OnlyCurrent_All(baseline_names, current_names) == current_names

OnlyCurrent(baseline_names, current_names) == current_names \ baseline_names

\* has_critical / has_warning and the three-way if that ends check_regressions
PassFail(critical_bucket, warning_bucket) ==
    IF Len(critical_bucket) > 0 THEN [passed |-> "False", line |-> "FAIL"]
    ELSE IF Len(warning_bucket) > 0 THEN [passed |-> "True", line |-> "WARNING"]
    ELSE [passed |-> "True", line |-> "PASS"]

\* analyses of the loop "for name in sorted(common_names)", as one list
AnalyzeAll(baseline, current, names) ==
    [i \in 1..Cardinality(names) |->
        analyze_regression(baseline[Sorted(names)[i]], current[Sorted(names)[i]])]

\* What check_regressions returns for two loaded mappings: "False" without a
\* common name, "raised" when an analysis raises, else the pass/fail value.
ReturnValue(baseline, current) ==
    LET common == CommonNames(DOMAIN baseline, DOMAIN current)
        results == AnalyzeAll(baseline, current, common)
        list == [i \in 1..Len(results) |-> results[i].analysis]
    IN  IF common = {} THEN "False"
        ELSE IF \E i \in 1..Len(results) : results[i].exc # "none" THEN "raised"
        ELSE PassFail(Bucket(list, CRITICAL), Bucket(list, WARNING)).passed

(***************************************************************************)
(* The input documents                                                     *)
(***************************************************************************)
SeqsUpTo(S, n) == UNION {[1..k -> S] : k \in 0..n}

Documents(entries) ==
    {[kind |-> "FileNotFound", data |-> EmptyDict],
     [kind |-> "JSONDecodeError", data |-> EmptyDict]}
    \cup {[kind |-> "json", data |-> d] :
            d \in Opt("benchmarks", SeqsUpTo(entries, MaxEntries))}

\* Entries of a run's documents: a name (or none) and a real_time in ns.
Nameless == "real_time" :> 5

RunEntries(times) ==
    {Nameless} \cup {("name" :> n) @@ ("real_time" :> t) : n \in Names, t \in times}

BaselineTimes == {0, 5, 6}
CurrentTimes == {5, 7}


(***************************************************************************)
(* State                                                                   *)
(***************************************************************************)
VARIABLES
    argc,               \* len(sys.argv)
    baseline_file,      \* the document behind sys.argv[2]
    current_file,       \* the document behind sys.argv[1]
    pc,                 \* position of the process
    baseline_results,   \* name -> BenchmarkResult
    current_results,
    common_names,
    only_baseline,
    only_current,
    analyses,           \* List[RegressionAnalysis]
    improvements,
    acceptable,
    warnings,
    criticals,
    passed,             \* what check_regressions returned: "unset", "True", "False"
    exception,          \* the exception that ended the run, or "none"
    exit_code,          \* process exit status, -1 while running
    output              \* the diagnostic lines printed, in order

vars == <<argc, baseline_file, current_file, pc, baseline_results, current_results,
          common_names, only_baseline, only_current, analyses, improvements,
          acceptable, warnings, criticals, passed, exception, exit_code, output>>

inputs == <<argc, baseline_file, current_file>>
loaded == <<baseline_results, current_results>>
partition == <<common_names, only_baseline, only_current>>
buckets == <<improvements, acceptable, warnings, criticals>>

Blank ==
    /\ baseline_results = EmptyDict
    /\ current_results = EmptyDict
    /\ common_names = {}
    /\ only_baseline = {}
    /\ only_current = {}
    /\ analyses = <<>>
    /\ improvements = <<>>
    /\ acceptable = <<>>
    /\ warnings = <<>>
    /\ criticals = <<>>
    /\ passed = "unset"
    /\ exception = "none"
    /\ exit_code = -1
    /\ output = <<>>

Init ==
    /\ argc \in {2, 3}
    /\ baseline_file \in Documents(RunEntries(BaselineTimes))
    /\ current_file \in Documents(RunEntries(CurrentTimes))
    /\ argc # 3 => baseline_file.kind = "FileNotFound" /\ current_file.kind = "FileNotFound"
    /\ pc = "main"
    /\ Blank

(***************************************************************************)
(* main                                                                    *)
(***************************************************************************)
Main ==
    /\ pc = "main"
    /\ IF argc # 3
       THEN /\ output' = Append(output, "Usage")
            /\ exit_code' = 2
            /\ pc' = "exited"
       ELSE /\ pc' = "load_baseline"
            /\ UNCHANGED <<output, exit_code>>
    /\ UNCHANGED <<inputs, loaded, partition, analyses, buckets, passed, exception>>

\* What a call of load_benchmark_results leaves behind: sys.exit(2) after the
\* message, an uncaught KeyError, or the mapping.
AfterLoad(file, next) ==
    LET r == load_benchmark_results(file) IN
    /\ output' = output \o LoadMessage(file)
    /\ IF r.exc = "SystemExit2"
       THEN pc' = "exited" /\ exit_code' = 2 /\ UNCHANGED exception
       ELSE IF r.exc = "KeyError"
       THEN pc' = "uncaught" /\ exception' = "KeyError" /\ UNCHANGED exit_code
       ELSE pc' = next /\ UNCHANGED <<exception, exit_code>>

\* baseline_results = load_benchmark_results(baseline_file)
LoadBaseline ==
    /\ pc = "load_baseline"
    /\ AfterLoad(baseline_file, "load_current")
    /\ baseline_results' = load_benchmark_results(baseline_file).results
    /\ UNCHANGED <<inputs, current_results, partition, analyses, buckets, passed>>

\* current_results = load_benchmark_results(current_file)
LoadCurrent ==
    /\ pc = "load_current"
    /\ AfterLoad(current_file, "reconcile")
    /\ current_results' = load_benchmark_results(current_file).results
    /\ UNCHANGED <<inputs, baseline_results, partition, analyses, buckets, passed>>

(***************************************************************************)
(* check_regressions                                                       *)
(***************************************************************************)
\* Find common benchmarks; "if not common_names: ... return False"
Reconcile ==
    /\ pc = "reconcile"
    /\ common_names' = CommonNames(DOMAIN baseline_results, DOMAIN current_results)
    /\ only_baseline' = OnlyBaseline(DOMAIN baseline_results, DOMAIN current_results)
    /\ only_current' = OnlyCurrent(DOMAIN baseline_results, DOMAIN current_results)
    /\ IF common_names' = {}
       THEN /\ output' = Append(output, "Error: No common benchmarks")
            /\ passed' = "False"
            /\ pc' = "returned"
       ELSE /\ pc' = "analyze"
            /\ UNCHANGED <<output, passed>>
    /\ UNCHANGED <<inputs, loaded, analyses, buckets, exception, exit_code>>

\* One iteration of "for name in sorted(common_names)"
Analyze ==
    /\ pc = "analyze"
    /\ Len(analyses) < Cardinality(common_names)
    /\ LET name == Sorted(common_names)[Len(analyses) + 1]
           r == analyze_regression(baseline_results[name], current_results[name])
       IN  IF r.exc = "ZeroDivisionError"
           THEN /\ pc' = "uncaught"
                /\ exception' = "ZeroDivisionError"
                /\ UNCHANGED analyses
           ELSE /\ analyses' = Append(analyses, r.analysis)
                /\ UNCHANGED <<pc, exception>>
    /\ UNCHANGED <<inputs, loaded, partition, buckets, passed, exit_code, output>>

\* Group by severity, once the loop is over
Group ==
    /\ pc = "analyze"
    /\ Len(analyses) = Cardinality(common_names)
    /\ improvements' = Bucket(analyses, IMPROVEMENT)
    /\ acceptable' = Bucket(analyses, ACCEPTABLE)
    /\ warnings' = Bucket(analyses, WARNING)
    /\ criticals' = Bucket(analyses, CRITICAL)
    /\ pc' = "verdict"
    /\ UNCHANGED <<inputs, loaded, partition, analyses, passed, exception, exit_code, output>>

\* a verdict that also fails a run in which benchmarks were removed
Verdict_FailOnRemoved ==
    /\ pc = "verdict"
    /\ output' = Append(output, PassFail(criticals, warnings).line)
    /\ passed' = IF only_baseline # {} THEN "False" ELSE PassFail(criticals, warnings).passed
    /\ pc' = "returned"
    /\ UNCHANGED <<inputs, loaded, partition, analyses, buckets, exception, exit_code>>

\* Determine pass/fail
Verdict ==
    /\ pc = "verdict"
    /\ output' = Append(output, PassFail(criticals, warnings).line)
    /\ passed' = PassFail(criticals, warnings).passed
    /\ pc' = "returned"
    /\ UNCHANGED <<inputs, loaded, partition, analyses, buckets, exception, exit_code>>

\* sys.exit(0 if passed else 1)
Exit ==
    /\ pc = "returned"
    /\ exit_code' = IF passed = "True" THEN 0 ELSE 1
    /\ pc' = "exited"
    /\ UNCHANGED <<inputs, loaded, partition, analyses, buckets, passed, exception, output>>

\* An exception no handler catches: traceback, exit status 1
Uncaught ==
    /\ pc = "uncaught"
    /\ output' = Append(output, "Traceback")
    /\ exit_code' = 1
    /\ pc' = "exited"
    /\ UNCHANGED <<inputs, loaded, partition, analyses, buckets, passed, exception>>

Next ==
    \/ Main
    \/ LoadBaseline
    \/ LoadCurrent
    \/ Reconcile
    \/ Analyze
    \/ Group
    \/ Verdict
    \/ Exit
    \/ Uncaught

Spec == Init /\ [][Next]_vars

(***************************************************************************)
(* load_benchmark_results alone, on documents whose entries use every      *)
(* optional field: the call of check_regressions that loads the baseline.  *)
(***************************************************************************)
RealTimes == {5}
CpuTimes == {2}
TimeUnits == {"ns", "us", "ms"}

LoaderEntries ==
    {n @@ r @@ c @@ u : n \in Opt("name", Names), r \in Opt("real_time", RealTimes),
                        c \in Opt("cpu_time", CpuTimes), u \in Opt("time_unit", TimeUnits)}

InitLoad ==
    /\ argc = 3
    /\ baseline_file \in Documents(LoaderEntries)
    /\ current_file = [kind |-> "json", data |-> EmptyDict]
    /\ pc = "load_baseline"
    /\ Blank

SpecLoad == InitLoad /\ [][LoadBaseline]_vars

(***************************************************************************)
(* analyze_regression on every pair of times up to MaxTime: the run of two *)
(* one-entry documents, taken from the start of the analysis loop.         *)
(***************************************************************************)
OneEntry(name, time) ==
    [kind |-> "json", data |-> "benchmarks" :> <<("name" :> name) @@ ("real_time" :> time)>>]

InitAnalyze ==
    /\ argc = 3
    /\ \E b \in 0..MaxTime, c \in 0..MaxTime :
          /\ baseline_file = OneEntry(1, b)
          /\ current_file = OneEntry(1, c)
    /\ baseline_results = load_benchmark_results(baseline_file).results
    /\ current_results = load_benchmark_results(current_file).results
    /\ common_names = CommonNames(DOMAIN baseline_results, DOMAIN current_results)
    /\ only_baseline = OnlyBaseline(DOMAIN baseline_results, DOMAIN current_results)
    /\ only_current = OnlyCurrent(DOMAIN baseline_results, DOMAIN current_results)
    /\ pc = "analyze"
    /\ analyses = <<>>
    /\ improvements = <<>>
    /\ acceptable = <<>>
    /\ warnings = <<>>
    /\ criticals = <<>>
    /\ passed = "unset"
    /\ exception = "none"
    /\ exit_code = -1
    /\ output = <<>>

NextAnalyze ==
    \/ Analyze
    \/ Group
    \/ Verdict
    \/ Exit
    \/ Uncaught

SpecAnalyze == InitAnalyze /\ [][NextAnalyze]_vars

(***************************************************************************)
(* check_regressions from the reconciliation on: the runs of two documents *)
(* that list any subsets of the names 1..MaxKeys, one entry per name.      *)
(***************************************************************************)
MaxKeys == 3

Keys == 1..MaxKeys

Timings(times) == UNION {[S -> times] : S \in SUBSET Keys}

DocumentOf(timing) ==
    [kind |-> "json",
     data |-> "benchmarks" :>
                 [i \in 1..Cardinality(DOMAIN timing) |->
                     ("name" :> Sorted(DOMAIN timing)[i])
                         @@ ("real_time" :> timing[Sorted(DOMAIN timing)[i]])]]

ReconcileBaselineTimes == {5}
ReconcileCurrentTimes == {5, 6, 7}

\* the pairs of mappings the two loads of such a run return
ReconcileRuns ==
    {<<load_benchmark_results(DocumentOf(bt)).results,
       load_benchmark_results(DocumentOf(ct)).results>> :
        bt \in Timings(ReconcileBaselineTimes), ct \in Timings(ReconcileCurrentTimes)}

InitReconcile ==
    /\ argc = 3
    /\ \E bt \in Timings(ReconcileBaselineTimes), ct \in Timings(ReconcileCurrentTimes) :
          /\ baseline_file = DocumentOf(bt)
          /\ current_file = DocumentOf(ct)
    /\ baseline_results = load_benchmark_results(baseline_file).results
    /\ current_results = load_benchmark_results(current_file).results
    /\ pc = "reconcile"
    /\ common_names = {}
    /\ only_baseline = {}
    /\ only_current = {}
    /\ analyses = <<>>
    /\ improvements = <<>>
    /\ acceptable = <<>>
    /\ warnings = <<>>
    /\ criticals = <<>>
    /\ passed = "unset"
    /\ exception = "none"
    /\ exit_code = -1
    /\ output = <<>>

NextReconcile ==
    \/ Reconcile
    \/ Analyze
    \/ Group
    \/ Verdict
    \/ Exit

SpecReconcile == InitReconcile /\ [][NextReconcile]_vars

(***************************************************************************)
(* Properties                                                              *)
(***************************************************************************)
TypeOK ==
    /\ pc \in {"main", "load_baseline", "load_current", "reconcile", "analyze",
               "verdict", "returned", "uncaught", "exited"}
    /\ passed \in {"unset", "True", "False"}
    /\ exit_code \in {-1, 0, 1, 2}
    /\ exception \in {"none", "KeyError", "ZeroDivisionError"}

(***************************************************************************)
(* C1: for every baseline time b > 0 and current time c >= 0 the analysis  *)
(* carries r = (c - b) / b * 100 and the tier of the cascade: improvement  *)
(* iff r <= -5, acceptable iff -5 < r <= 10, warning iff 10 < r <= 20,     *)
(* critical iff r > 20; the analysis is refused only for b = 0.            *)
(***************************************************************************)
C1_TierCascade ==
    /\ \A i \in 1..Len(analyses) :
          LET a == analyses[i]
              b == a.baseline_ns
              c == a.current_ns
              n == 100 * (c - b)
          IN  /\ b > 0 /\ c >= 0
              /\ a.regression_pct.den > 0
              /\ a.regression_pct.num * b = n * a.regression_pct.den
              /\ a.level = IMPROVEMENT <=> n <= (-5) * b
              /\ a.level = ACCEPTABLE <=> ((-5) * b < n /\ n <= 10 * b)
              /\ a.level = WARNING <=> (10 * b < n /\ n <= 20 * b)
              /\ a.level = CRITICAL <=> n > 20 * b
    /\ pc = "verdict" => Len(analyses) = Cardinality(common_names)
    /\ exception = "ZeroDivisionError"
          => \E name \in common_names : baseline_results[name].time_ns = 0

\* an analysis at each of the three boundaries is not in one state; the
\* boundary r = 20 with tier warning is
C1_Witness ==
    \E i \in 1..Len(analyses) :
        /\ 100 * (analyses[i].current_ns - analyses[i].baseline_ns)
              = 20 * analyses[i].baseline_ns
        /\ analyses[i].level = WARNING

(***************************************************************************)
(* C2: the verdict check_regressions returns is False if and only if the   *)
(* critical bucket is non-empty; warnings alone, and an empty set of       *)
(* analyses, leave it True.                                                *)
(***************************************************************************)
C2_VerdictIffCritical ==
    passed # "unset" => (passed = "False" <=> Bucket(analyses, CRITICAL) # <<>>)

BothLoaded ==
    /\ argc = 3
    /\ load_benchmark_results(baseline_file).exc = "none"
    /\ load_benchmark_results(current_file).exc = "none"

NoCommonBenchmarks ==
    /\ BothLoaded
    /\ DOMAIN load_benchmark_results(baseline_file).results
          \cap DOMAIN load_benchmark_results(current_file).results = {}

(***************************************************************************)
(* C3: when the two documents load and share no benchmark name, the        *)
(* process ends with the error "no common benchmarks" and exit code 2.     *)
(***************************************************************************)
C3_NoCommonExits2 ==
    pc = "exited" /\ NoCommonBenchmarks => exit_code = 2

Degenerate == {name \in common_names : baseline_results[name].time_ns = 0}

InBuckets ==
    {(improvements \o acceptable \o warnings \o criticals)[i].name :
        i \in 1..(Len(improvements) + Len(acceptable) + Len(warnings) + Len(criticals))}

(***************************************************************************)
(* C4: a common benchmark whose baseline time is 0 does not abort the run: *)
(* it is in none of the four buckets, and the verdict and the exit code    *)
(* are those of the remaining common benchmarks.                           *)
(***************************************************************************)
C4_DegenerateBaselineRecovered ==
    pc = "exited" /\ Degenerate # {} =>
        /\ exception = "none"
        /\ passed # "unset"
        /\ InBuckets \cap Degenerate = {}
        /\ passed = "False" <=>
              \E name \in common_names \ Degenerate :
                  LevelOf(regression_pct(baseline_results[name].time_ns,
                                         current_results[name].time_ns)) = CRITICAL
        /\ exit_code = IF passed = "True" THEN 0 ELSE 1

Unloadable(file) == file.kind \in {"FileNotFound", "JSONDecodeError"}

(***************************************************************************)
(* C5: when an input document cannot be located or cannot be parsed, the   *)
(* process exits with code 2: no analysis is computed, no verdict is       *)
(* produced, and the exit code is never 0 or 1.                            *)
(***************************************************************************)
C5_LoadErrorExits2 ==
    argc = 3 /\ (Unloadable(baseline_file) \/ Unloadable(current_file)) =>
        /\ analyses = <<>>
        /\ passed = "unset"
        /\ exit_code \notin {0, 1}
        /\ pc = "exited" => exit_code = 2

(***************************************************************************)
(* The entries of the baseline document, as the loader's caller sees them. *)
(***************************************************************************)
Benchmarks == Get(baseline_file.data, "benchmarks", <<>>)

NamedEntries == {i \in 1..Len(Benchmarks) : "name" \in DOMAIN Benchmarks[i]}

EntryNames == {Benchmarks[i]["name"] : i \in NamedEntries}

\* the last entry of the document that carries the name
LastEntry(name) ==
    Benchmarks[CHOOSE i \in NamedEntries :
                  /\ Benchmarks[i]["name"] = name
                  /\ \A j \in NamedEntries : Benchmarks[j]["name"] = name => j <= i]

\* the loader has returned its mapping to check_regressions
BaselineReturned == pc = "load_current"

(***************************************************************************)
(* C6: an entry without a name is skipped and is not fatal: the loader     *)
(* still returns the mapping of every named entry of the document.         *)
(***************************************************************************)
C6_NamelessEntrySkipped ==
    pc # "load_baseline" /\ baseline_file.kind = "json" =>
        /\ exception = "none"
        /\ BaselineReturned
        /\ DOMAIN baseline_results = EntryNames

(***************************************************************************)
(* C9: every time is normalized to nanoseconds: the raw value is real_time *)
(* when present, otherwise cpu_time; it is multiplied by 1,000 for "us",   *)
(* by 1,000,000 for "ms", and kept for "ns" or no time_unit.               *)
(***************************************************************************)
C9_NormalizedToNs ==
    BaselineReturned =>
        \A name \in DOMAIN baseline_results :
            LET e == LastEntry(name)
                raw == IF "real_time" \in DOMAIN e THEN e["real_time"] ELSE e["cpu_time"]
                unit == IF "time_unit" \in DOMAIN e THEN e["time_unit"] ELSE "none"
            IN  {"real_time", "cpu_time"} \cap DOMAIN e # {} =>
                    /\ unit = "us" => baseline_results[name].time_ns = raw * 1000
                    /\ unit = "ms" => baseline_results[name].time_ns = raw * 1000000
                    /\ unit \in {"ns", "none"} => baseline_results[name].time_ns = raw

\* real_time 5 in "us" beside a cpu_time comes out as 5000 ns
C9_Witness ==
    /\ BaselineReturned
    /\ \E name \in DOMAIN baseline_results :
          /\ {"real_time", "cpu_time"} \subseteq DOMAIN LastEntry(name)
          /\ LastEntry(name)["real_time"] = 5
          /\ Get(LastEntry(name), "time_unit", "ns") = "us"
          /\ baseline_results[name].time_ns = 5000

(***************************************************************************)
(* C10: the loader drops no named benchmark: the keys of the mapping it    *)
(* returns are the names of the document's entries, each bound to a result *)
(* of that name, and an entry with neither real_time nor cpu_time is kept  *)
(* with time_ns = 0.                                                       *)
(***************************************************************************)
C10_NoNamedBenchmarkDropped ==
    BaselineReturned =>
        /\ DOMAIN baseline_results = EntryNames
        /\ \A name \in EntryNames :
              /\ baseline_results[name].name = name
              /\ {"real_time", "cpu_time"} \cap DOMAIN LastEntry(name) = {}
                    => baseline_results[name].time_ns = 0

\* two names, one of them without any time, both in the mapping
C10_Witness ==
    /\ BaselineReturned
    /\ Cardinality(DOMAIN baseline_results) = 2
    /\ \E name \in DOMAIN baseline_results :
          /\ {"real_time", "cpu_time"} \cap DOMAIN LastEntry(name) = {}
          /\ "time_unit" \in DOMAIN LastEntry(name)
          /\ baseline_results[name].time_ns = 0

\* the three sets have been computed
Reconciled ==
    \/ pc \in {"analyze", "verdict", "returned"}
    \/ pc \in {"uncaught", "exited"} /\ (passed # "unset" \/ exception = "ZeroDivisionError")

(***************************************************************************)
(* C7: common, baseline_only and current_only are pairwise disjoint and    *)
(* their union is the union of the two documents' name sets.               *)
(***************************************************************************)
C7_Partition ==
    Reconciled =>
        /\ common_names \cap only_baseline = {}
        /\ common_names \cap only_current = {}
        /\ only_baseline \cap only_current = {}
        /\ common_names \cup only_baseline \cup only_current
              = DOMAIN baseline_results \cup DOMAIN current_results

\* a run with a common, a removed and an added benchmark
C7_Witness ==
    /\ Reconciled
    /\ common_names # {}
    /\ only_baseline # {}
    /\ only_current # {}

SameCommon(baseline1, current1, baseline2, current2) ==
    /\ DOMAIN baseline1 \cap DOMAIN current1 = DOMAIN baseline2 \cap DOMAIN current2
    /\ \A name \in DOMAIN baseline1 \cap DOMAIN current1 :
          /\ baseline1[name].time_ns = baseline2[name].time_ns
          /\ current1[name].time_ns = current2[name].time_ns

\* the runs, by the set of names their two documents share
RunsSharing ==
    [common \in SUBSET Keys |->
        {run \in ReconcileRuns : DOMAIN run[1] \cap DOMAIN run[2] = common}]

(***************************************************************************)
(* C8: the names that are in one document only never affect the verdict:   *)
(* any other run with the same common names and the same baseline and      *)
(* current times for them returns the value this run returned.             *)
(***************************************************************************)
C8_OnlyNamesNeverAffectVerdict ==
    pc = "returned" =>
        \A run \in RunsSharing[DOMAIN baseline_results \cap DOMAIN current_results] :
            SameCommon(baseline_results, current_results, run[1], run[2])
                => ReturnValue(run[1], run[2]) = passed

\* a run that passed with a removed and an added benchmark beside the common
\* one, while the run of the common benchmark alone is among the other runs
C8_Witness ==
    /\ pc = "returned"
    /\ passed = "True"
    /\ common_names # {}
    /\ only_baseline # {}
    /\ only_current # {}
    /\ \E run \in ReconcileRuns :
          /\ SameCommon(baseline_results, current_results, run[1], run[2])
          /\ DOMAIN run[1] = common_names
          /\ DOMAIN run[2] = common_names

\* the names of the entries of a document, in document order
NamesInOrder(file) ==
    [i \in 1..Len(Get(file.data, "benchmarks", <<>>)) |->
        Get(Get(file.data, "benchmarks", <<>>)[i], "name", 0)]

\* the names of the analyses, in list order
AnalysisNames == [i \in 1..Len(analyses) |-> analyses[i].name]

\* the loop over the common names has run to its end
AnalysesBuilt ==
    \/ pc = "verdict"
    \/ pc \in {"returned", "exited"} /\ passed # "unset" /\ common_names # {}

(***************************************************************************)
(* C11: the analysis list holds exactly one analysis for each common name  *)
(* and none for any other name, in ascending order of name, whatever the   *)
(* order of the entries in the two documents; while the loop runs the list *)
(* is the beginning of that order.                                         *)
(***************************************************************************)
C11_AnalysesByName ==
    /\ Len(analyses) <= Cardinality(common_names)
    /\ \A i \in 1..Len(analyses) :
          /\ analyses[i].name \in common_names
          /\ analyses[i].baseline_ns = baseline_results[analyses[i].name].time_ns
          /\ analyses[i].current_ns = current_results[analyses[i].name].time_ns
          /\ \A name \in common_names : name < analyses[i].name =>
                \E j \in 1..(i - 1) : analyses[j].name = name
    /\ \A i, j \in 1..Len(analyses) : i < j => analyses[i].name < analyses[j].name
    /\ AnalysesBuilt => {analyses[i].name : i \in 1..Len(analyses)} = common_names

\* two common names analysed in ascending order although the baseline lists
\* them in descending order and the current document in ascending order
C11_Witness ==
    /\ AnalysesBuilt
    /\ AnalysisNames = <<1, 2>>
    /\ NamesInOrder(baseline_file) = <<2, 1>>
    /\ NamesInOrder(current_file) = <<1, 2>>

\* the members of a bucket
Members(bucket) == {bucket[i] : i \in 1..Len(bucket)}

\* the four buckets have been filled
Grouped == AnalysesBuilt

(***************************************************************************)
(* C12: every analysis is in exactly one of the four buckets, the bucket   *)
(* of its level: the buckets are pairwise disjoint and their sizes sum to  *)
(* the number of analyses, which is the number of common names.            *)
(***************************************************************************)
C12_BucketsPartitionAnalyses ==
    Grouped =>
        LET bucket == [level \in RegressionLevel |->
                          IF level = IMPROVEMENT THEN improvements
                          ELSE IF level = ACCEPTABLE THEN acceptable
                          ELSE IF level = WARNING THEN warnings
                          ELSE criticals]
        IN  /\ \A i \in 1..Len(analyses) :
                  \A level \in RegressionLevel :
                      analyses[i] \in Members(bucket[level]) <=> analyses[i].level = level
            /\ \A level \in RegressionLevel :
                  Members(bucket[level]) \subseteq Members(analyses)
            /\ \A l1, l2 \in RegressionLevel :
                  l1 # l2 => Members(bucket[l1]) \cap Members(bucket[l2]) = {}
            /\ Len(improvements) + Len(acceptable) + Len(warnings) + Len(criticals)
                  = Len(analyses)
            /\ Len(analyses) = Cardinality(common_names)

\* two common benchmarks, one improved and one critical
C12_Witness ==
    /\ Grouped
    /\ Len(analyses) = 2
    /\ Len(improvements) = 1
    /\ Len(criticals) = 1

(***************************************************************************)
(* Scale factors: the small integers and the factor of a time given in us. *)
(***************************************************************************)
MaxScale == 3

ScaleFactors == (1..MaxScale) \cup {NS_PER_US}

\* the tier analyze_regression gives the two results with both times scaled
ScaledLevel(baseline, current, k) ==
    analyze_regression([baseline EXCEPT !.time_ns = k * @],
                       [current EXCEPT !.time_ns = k * @]).analysis.level

(***************************************************************************)
(* C13: the tier depends on the relative change only: for every b > 0,     *)
(* c >= 0 and scale factor k > 0, analyze_regression gives (k*b, k*c) the  *)
(* tier it gave (b, c).                                                    *)
(***************************************************************************)
C13_TierScaleInvariant ==
    \A i \in 1..Len(analyses) :
        \A k \in ScaleFactors :
            ScaledLevel(baseline_results[analyses[i].name],
                        current_results[analyses[i].name], k) = analyses[i].level

\* a pair on the boundary r = 10, acceptable as it is and in microseconds
C13_Witness ==
    \E i \in 1..Len(analyses) :
        /\ analyses[i].baseline_ns > 1
        /\ 100 * (analyses[i].current_ns - analyses[i].baseline_ns)
              = 10 * analyses[i].baseline_ns
        /\ analyses[i].level = ACCEPTABLE
        /\ ScaledLevel(baseline_results[analyses[i].name],
                       current_results[analyses[i].name], NS_PER_US) = ACCEPTABLE

====
